---- MODULE Spec2Model ----
(***************************************************************************)
(* Verification model of the podcast-clip pipeline: the LangGraph workflow *)
(* of PodcastClipsAgent (src/src/agents/podcast_agent.py) and its six node *)
(* functions (src/src/nodes/*.py).                                         *)
(*                                                                         *)
(* Times are whole seconds and scores are tenths of a point (7.5 -> 75),   *)
(* so that the float comparisons of the code become integer comparisons.   *)
(***************************************************************************)
EXTENDS Integers, Sequences, FiniteSets, TLC

(***************************************************************************)
(* Bounds and input domains                                                *)
(***************************************************************************)

\* longest list of clips the scoring call answers with
MaxIdentified == 3

\* ProcessingConfig.min_engagement_score: default 7.5, never set by from_env
min_engagement_score == 75

\* values of the environment variables read by AppConfig.from_env
EnvMaxClips == {-1, 0, 2, 3}
EnvMinDuration == {25, 30}
EnvMaxDuration == {35}

\* VideoSegment(start_time, end_time, score), 1 <= score <= 10
VideoSegment(s, e, sc) == [start_time |-> s, end_time |-> e, score |-> sc]

\* clips the scoring call may propose: durations 25 and 35 at the edges of
\* the default window, 20 below and 40 above it, scores below and above 7.5
CandidateClips ==
    { VideoSegment(0, 25, 80),   VideoSegment(30, 55, 90),
      VideoSegment(60, 95, 90),  VideoSegment(100, 120, 90),
      VideoSegment(130, 170, 90), VideoSegment(200, 225, 70) }

SeqsUpTo(S, n) == UNION { [1..k -> S] : k \in 0..n }

(***************************************************************************)
(* State                                                                   *)
(***************************************************************************)

VARIABLES
    state,      \* the PodcastState threaded through the nodes
    env,        \* process environment read by AppConfig.from_env
    pc,         \* node the graph runs next, "END", or "returned"
    invoked,    \* history: the nodes run so far, with how each ended
    returned    \* the state process_video hands back to its caller

vars == <<state, env, pc, invoked, returned>>

\* process_video: initial_state
initial_state ==
    [ video_path       |-> FALSE,
      transcript       |-> FALSE,
      transcript_segments |-> FALSE,
      identified_clips |-> <<>>,
      selected_clips   |-> <<>>,
      processed_clips  |-> <<>>,
      metadata         |-> <<>>,
      errors           |-> <<>>,
      warnings         |-> <<>>,
      status           |-> "starting",
      completed_at     |-> FALSE ]

\* AppConfig.from_env().processing
from_env(e) ==
    [ max_clips_per_video |-> e.MAX_CLIPS_PER_VIDEO,
      min_clip_duration   |-> e.MIN_CLIP_DURATION,
      max_clip_duration   |-> e.MAX_CLIP_DURATION,
      min_engagement_score |-> min_engagement_score ]

(***************************************************************************)
(* Conditional edges of the graph                                          *)
(***************************************************************************)

\* the edge taken unconditionally
unconditional_after_transcript(st) == "analyze_content"

should_continue_after_transcript(st) ==
    IF st.status = "failed" THEN "END"
    ELSE IF ~st.transcript THEN "END"
    ELSE "analyze_content"

\* the emptiness test left out
status_only_after_analysis(st) ==
    IF st.status = "failed" THEN "END" ELSE "select_clips"

should_continue_after_analysis(st) ==
    IF st.status = "failed" THEN "END"
    ELSE IF st.identified_clips = <<>> THEN "END"
    ELSE "select_clips"

\* the emptiness test left out
status_only_after_selection(st) ==
    IF st.status = "failed" THEN "END" ELSE "download_video"

should_continue_after_selection(st) ==
    IF st.status = "failed" THEN "END"
    ELSE IF st.selected_clips = <<>> THEN "END"
    ELSE "download_video"

\* a successful download is followed by another download
download_again_after_download(st) ==
    IF st.status = "failed" THEN "END" ELSE "download_video"

should_continue_after_download(st) ==
    IF st.status = "failed" THEN "END"
    ELSE IF ~st.video_path THEN "END"
    ELSE "generate_clips"

\* the test for a successful clip left out
status_only_after_generation(st) ==
    IF st.status = "failed" THEN "END" ELSE "generate_metadata"

should_continue_after_generation(st) ==
    IF st.status = "failed" THEN "END"
    ELSE IF \A i \in 1..Len(st.processed_clips) : ~st.processed_clips[i].success
         THEN "END"
    ELSE "generate_metadata"

(***************************************************************************)
(* fetch_transcript_node                                                   *)
(***************************************************************************)

\* meta_ok: the metadata block (lines 36-51) did not raise
\* fetch_ok: fetch_youtube_transcript returned
fetch_transcript_node(st, meta_ok, fetch_ok) ==
    LET w  == IF meta_ok THEN st.warnings
              ELSE Append(st.warnings, "Could not fetch video metadata")
        s1 == [st EXCEPT !.warnings = w]
    IN  IF fetch_ok
        THEN [s1 EXCEPT !.transcript = TRUE,
                        !.transcript_segments = TRUE,
                        !.status = "transcript_fetched"]
        ELSE [s1 EXCEPT !.errors = Append(st.errors, "Failed to fetch transcript"),
                        !.status = "failed"]

FetchTranscript ==
    /\ pc = "fetch_transcript"
    /\ \E meta_ok \in BOOLEAN, fetch_ok \in BOOLEAN :
         LET st == fetch_transcript_node(state, meta_ok, fetch_ok)
         IN  /\ state' = st
             /\ invoked' = Append(invoked,
                    [node |-> "fetch_transcript",
                     outcome |-> IF fetch_ok THEN "ok" ELSE "exception"])
             /\ pc' = should_continue_after_transcript(st)
    /\ UNCHANGED <<env, returned>>

(***************************************************************************)
(* analyze_content_node                                                    *)
(***************************************************************************)

\* raised: the try block raised (config load, missing API key, scoring call)
\* clips: what parse_full_transcript_response made of the model's answer
analyze_content_node(st, raised, clips) ==
    IF ~st.transcript \/ ~st.transcript_segments
    THEN [st EXCEPT !.errors = Append(st.errors, "No transcript available for analysis")]
    ELSE IF raised
    THEN [st EXCEPT !.errors = Append(st.errors, "Content analysis failed"),
                    !.status = "analysis_failed"]
    ELSE [st EXCEPT !.identified_clips = clips,
                    !.status = "clips_identified"]

AnalyzeContent ==
    /\ pc = "analyze_content"
    /\ \E raised \in BOOLEAN, clips \in SeqsUpTo(CandidateClips, MaxIdentified) :
         /\ raised => clips = <<>>
         /\ LET st == analyze_content_node(state, raised, clips)
            IN  /\ state' = st
                /\ invoked' = Append(invoked,
                       [node |-> "analyze_content",
                        outcome |-> IF raised THEN "exception" ELSE "ok"])
                /\ pc' = should_continue_after_analysis(st)
    /\ UNCHANGED <<env, returned>>

(***************************************************************************)
(* select_clips_node                                                       *)
(***************************************************************************)

\* the upper duration filter left out
passes_validation_no_max(clip, cfg) ==
    LET duration == clip.end_time - clip.start_time
    IN  /\ ~(duration < cfg.min_clip_duration)
        /\ ~(clip.score < cfg.min_engagement_score)

\* lines 43-59: the three `continue` filters of the validation loop
passes_validation(clip, cfg) ==
    LET duration == clip.end_time - clip.start_time
    IN  /\ ~(duration < cfg.min_clip_duration)
        /\ ~(duration > cfg.max_clip_duration)
        /\ ~(clip.score < cfg.min_engagement_score)

validated_clips(clips, cfg) ==
    SelectSeq(clips, LAMBDA c : passes_validation(c, cfg))

\* an unstable descending sort: an element goes in front of its equals
RECURSIVE insert_before_equals(_, _)
insert_before_equals(sorted, c) ==
    IF sorted = <<>> THEN <<c>>
    ELSE IF Head(sorted).score > c.score
         THEN <<Head(sorted)>> \o insert_before_equals(Tail(sorted), c)
         ELSE <<c>> \o sorted

\* list.sort(key=score, reverse=True) is stable: an element goes behind every
\* element of at least its score
RECURSIVE insert_by_score(_, _)
insert_by_score(sorted, c) ==
    IF sorted = <<>> THEN <<c>>
    ELSE IF Head(sorted).score >= c.score
         THEN <<Head(sorted)>> \o insert_by_score(Tail(sorted), c)
         ELSE <<c>> \o sorted

RECURSIVE sort_by_score(_)
sort_by_score(clips) ==
    IF clips = <<>> THEN <<>>
    ELSE insert_by_score(sort_by_score(SubSeq(clips, 1, Len(clips) - 1)),
                         clips[Len(clips)])

\* Python slice clips[:n]; a negative n counts from the end
slice_to(clips, n) ==
    LET stop == IF n >= 0
                THEN (IF n < Len(clips) THEN n ELSE Len(clips))
                ELSE (IF Len(clips) + n > 0 THEN Len(clips) + n ELSE 0)
    IN  SubSeq(clips, 1, stop)

\* the no-result branches also clear processed_clips, as generate_clips_node does
select_clips_node_clears(st, raised, e) ==
    IF st.identified_clips = <<>>
    THEN [st EXCEPT !.warnings = Append(st.warnings, "No clips identified by analysis"),
                    !.selected_clips = <<>>,
                    !.processed_clips = <<>>,
                    !.status = "no_clips_identified"]
    ELSE IF raised
    THEN [st EXCEPT !.errors = Append(st.errors, "Clip selection failed"),
                    !.status = "selection_failed"]
    ELSE LET cfg == from_env(e)
             selected == slice_to(sort_by_score(validated_clips(st.identified_clips, cfg)),
                                  cfg.max_clips_per_video)
         IN  IF selected = <<>>
             THEN [st EXCEPT !.warnings = Append(st.warnings, "No clips passed validation criteria"),
                             !.selected_clips = <<>>,
                             !.processed_clips = <<>>,
                             !.status = "no_clips_passed_validation"]
             ELSE [st EXCEPT !.selected_clips = selected,
                             !.status = "clips_selected"]

\* raised: the try block raised (AppConfig.from_env is its first statement)
select_clips_node(st, raised, e) ==
    IF st.identified_clips = <<>>
    THEN [st EXCEPT !.warnings = Append(st.warnings, "No clips identified by analysis"),
                    !.selected_clips = <<>>,
                    !.status = "no_clips_identified"]
    ELSE IF raised
    THEN [st EXCEPT !.errors = Append(st.errors, "Clip selection failed"),
                    !.status = "selection_failed"]
    ELSE LET cfg == from_env(e)
             selected == slice_to(sort_by_score(validated_clips(st.identified_clips, cfg)),
                                  cfg.max_clips_per_video)
         IN  IF selected = <<>>
             THEN [st EXCEPT !.warnings = Append(st.warnings, "No clips passed validation criteria"),
                             !.selected_clips = <<>>,
                             !.status = "no_clips_passed_validation"]
             ELSE [st EXCEPT !.selected_clips = selected,
                             !.status = "clips_selected"]

SelectClips ==
    /\ pc = "select_clips"
    /\ \E raised \in BOOLEAN :
         LET st == select_clips_node(state, raised, env)
         IN  /\ state' = st
             /\ invoked' = Append(invoked,
                    [node |-> "select_clips",
                     outcome |-> IF raised THEN "exception" ELSE "ok"])
             /\ pc' = should_continue_after_selection(st)
    /\ UNCHANGED <<env, returned>>

(***************************************************************************)
(* download_video_node                                                     *)
(***************************************************************************)

\* the warning list rebuilt instead of appended to
download_video_node_overwrite(st, long, raised) ==
    LET w == IF long THEN <<"Video is longer than the limit">>
             ELSE st.warnings
    IN  IF raised
        THEN [st EXCEPT !.warnings = w,
                        !.errors = Append(st.errors, "Video download failed"),
                        !.status = "failed"]
        ELSE [st EXCEPT !.warnings = w,
                        !.video_path = TRUE,
                        !.status = "video_downloaded"]

\* long: info['duration'] exceeds max_video_duration (warning, lines 76-79)
\* raised: the try block raised after that point (download, missing file)
download_video_node(st, long, raised) ==
    LET w == IF long THEN Append(st.warnings, "Video is longer than the limit")
             ELSE st.warnings
    IN  IF raised
        THEN [st EXCEPT !.warnings = w,
                        !.errors = Append(st.errors, "Video download failed"),
                        !.status = "failed"]
        ELSE [st EXCEPT !.warnings = w,
                        !.video_path = TRUE,
                        !.status = "video_downloaded"]

DownloadVideo ==
    /\ pc = "download_video"
    /\ \E long \in BOOLEAN, raised \in BOOLEAN :
         LET st == download_video_node(state, long, raised)
         IN  /\ state' = st
             /\ invoked' = Append(invoked,
                    [node |-> "download_video",
                     outcome |-> IF raised THEN "exception" ELSE "ok"])
             /\ pc' = should_continue_after_download(st)
    /\ UNCHANGED <<env, returned>>

(***************************************************************************)
(* generate_clips_node                                                     *)
(***************************************************************************)

\* one entry of processed_clips (lines 138-153 and 162-174)
processing_result(i, clip, ok) ==
    [ success      |-> ok,
      clip_index   |-> i,
      segment_data |-> clip,
      errors       |-> IF ok THEN <<>> ELSE <<"Failed to generate clip">> ]

\* the warnings appended by the per-clip except branch, in clip order
RECURSIVE clip_warnings(_, _)
clip_warnings(oks, i) ==
    IF i > Len(oks) THEN <<>>
    ELSE (IF oks[i] THEN <<>> ELSE <<"Failed to generate clip">>)
         \o clip_warnings(oks, i + 1)

\* the per-clip try left out: one failing clip reaches the outer except
generate_clips_node_aborts(st, exists, raised, oks) ==
    IF ~st.video_path \/ ~exists
    THEN [st EXCEPT !.errors = Append(st.errors, "No video file available for clip generation")]
    ELSE IF st.selected_clips = <<>>
    THEN [st EXCEPT !.warnings = Append(st.warnings, "No clips selected for generation"),
                    !.processed_clips = <<>>,
                    !.status = "no_clips_to_generate"]
    ELSE IF raised \/ \E i \in DOMAIN oks : ~oks[i]
    THEN [st EXCEPT !.errors = Append(st.errors, "Clip generation failed"),
                    !.status = "failed"]
    ELSE [st EXCEPT !.processed_clips =
                        [ i \in 1..Len(st.selected_clips) |->
                            processing_result(i, st.selected_clips[i], TRUE) ],
                    !.status = "clips_generated"]

\* exists: os.path.exists(video_path)
\* raised: the outer try raised (config load, mkdir, opening the video)
\* oks[i]: extraction and encoding of clip i went through
generate_clips_node(st, exists, raised, oks) ==
    IF ~st.video_path \/ ~exists
    THEN [st EXCEPT !.errors = Append(st.errors, "No video file available for clip generation")]
    ELSE IF st.selected_clips = <<>>
    THEN [st EXCEPT !.warnings = Append(st.warnings, "No clips selected for generation"),
                    !.processed_clips = <<>>,
                    !.status = "no_clips_to_generate"]
    ELSE IF raised
    THEN [st EXCEPT !.errors = Append(st.errors, "Clip generation failed"),
                    !.status = "failed"]
    ELSE LET processed == [ i \in 1..Len(st.selected_clips) |->
                              processing_result(i, st.selected_clips[i], oks[i]) ]
         IN  [st EXCEPT !.processed_clips = processed,
                        !.warnings = st.warnings \o clip_warnings(oks, 1),
                        !.status = IF \E i \in 1..Len(processed) : processed[i].success
                                   THEN "clips_generated"
                                   ELSE "clip_generation_failed"]

GenerateClips ==
    /\ pc = "generate_clips"
    /\ \E exists \in BOOLEAN, raised \in BOOLEAN,
          oks \in [1..Len(state.selected_clips) -> BOOLEAN] :
         /\ (~exists \/ raised) => \A i \in DOMAIN oks : oks[i]
         /\ ~exists => ~raised
         /\ LET st == generate_clips_node(state, exists, raised, oks)
            IN  /\ state' = st
                /\ invoked' = Append(invoked,
                       [node |-> "generate_clips",
                        outcome |-> IF ~exists THEN "early_return"
                                    ELSE IF raised THEN "exception" ELSE "ok"])
                /\ pc' = should_continue_after_generation(st)
    /\ UNCHANGED <<env, returned>>

(***************************************************************************)
(* generate_metadata_node                                                  *)
(***************************************************************************)

RECURSIVE metadata_warnings(_, _)
metadata_warnings(oks, i) ==
    IF i > Len(oks) THEN <<>>
    ELSE (IF oks[i] THEN <<>> ELSE <<"Failed to generate metadata for clip">>)
         \o metadata_warnings(oks, i + 1)

\* raised: the outer try raised (config load, missing API key)
\* oks[i]: the metadata call for the i-th successful clip gave usable JSON
generate_metadata_node(st, raised, oks) ==
    LET successful_clips == SelectSeq(st.processed_clips, LAMBDA c : c.success)
    IN  IF st.processed_clips = <<>>
        THEN [st EXCEPT !.warnings = Append(st.warnings,
                            "No processed clips available for metadata generation"),
                        !.metadata = <<>>]
        ELSE IF successful_clips = <<>>
        THEN [st EXCEPT !.warnings = Append(st.warnings,
                            "No successful clips to generate metadata for"),
                        !.metadata = <<>>]
        ELSE IF raised
        THEN [st EXCEPT !.errors = Append(st.errors, "Metadata generation failed"),
                        !.status = "failed"]
        ELSE [st EXCEPT !.metadata = SelectSeq(
                            [ i \in 1..Len(successful_clips) |->
                                [clip_index |-> successful_clips[i].clip_index,
                                 ok |-> oks[i]] ],
                            LAMBDA m : m.ok),
                        !.warnings = st.warnings \o metadata_warnings(oks, 1),
                        !.status = "metadata_generated"]

GenerateMetadata ==
    /\ pc = "generate_metadata"
    /\ LET n == Len(SelectSeq(state.processed_clips, LAMBDA c : c.success))
       IN  \E raised \in BOOLEAN, oks \in [1..n -> BOOLEAN] :
             /\ raised => \A i \in DOMAIN oks : oks[i]
             /\ LET st == generate_metadata_node(state, raised, oks)
                IN  /\ state' = st
                    /\ invoked' = Append(invoked,
                           [node |-> "generate_metadata",
                            outcome |-> IF raised THEN "exception" ELSE "ok"])
                    /\ pc' = "END"
    /\ UNCHANGED <<env, returned>>

(***************************************************************************)
(* process_video: after graph.invoke                                       *)
(***************************************************************************)

\* _print_summary line 209: len(state.get('transcript', '')) raises TypeError
\* when the key holds None
print_summary_raises(st) == ~st.transcript

\* the except branch without its status assignment
Finish_keeps_status ==
    /\ pc = "END"
    /\ IF print_summary_raises(state)
       THEN \E shared \in BOOLEAN :
              returned' = [initial_state EXCEPT
                  !.errors = Append(IF shared THEN state.errors ELSE <<>>,
                                    "Workflow execution failed"),
                  !.warnings = IF shared THEN state.warnings ELSE <<>>,
                  !.completed_at = TRUE]
       ELSE returned' = [state EXCEPT !.completed_at = TRUE]
    /\ pc' = "returned"
    /\ UNCHANGED <<state, env, invoked>>

\* The except branch returns initial_state.  Its errors list is the object
\* the nodes appended to when the graph hands the input's list on by
\* reference, and a fresh empty list when the graph copied it: both outcomes
\* are kept.
Finish ==
    /\ pc = "END"
    /\ IF print_summary_raises(state)
       THEN \E shared \in BOOLEAN :
              returned' = [initial_state EXCEPT
                  !.errors = Append(IF shared THEN state.errors ELSE <<>>,
                                    "Workflow execution failed"),
                  !.warnings = IF shared THEN state.warnings ELSE <<>>,
                  !.status = "failed",
                  !.completed_at = TRUE]
       ELSE returned' = [state EXCEPT !.completed_at = TRUE]
    /\ pc' = "returned"
    /\ UNCHANGED <<state, env, invoked>>

(***************************************************************************)
(* Specification                                                           *)
(***************************************************************************)

Init ==
    /\ state = initial_state
    /\ env \in [ MAX_CLIPS_PER_VIDEO : EnvMaxClips,
                 MIN_CLIP_DURATION : EnvMinDuration,
                 MAX_CLIP_DURATION : EnvMaxDuration ]
    /\ pc = "fetch_transcript"
    /\ invoked = <<>>
    /\ returned = initial_state

Next ==
    \/ FetchTranscript
    \/ AnalyzeContent
    \/ SelectClips
    \/ DownloadVideo
    \/ GenerateClips
    \/ GenerateMetadata
    \/ Finish

Spec == Init /\ [][Next]_vars

(***************************************************************************)
(* select_clips_node run on its own, on a state of any shape               *)
(***************************************************************************)

\* longest identified_clips list of a state handed to the node directly
MaxStandalone == 2

\* states a caller may hand to select_clips_node
StandaloneStates ==
    { [initial_state EXCEPT
          !.video_path = vp,
          !.transcript = TRUE,
          !.transcript_segments = TRUE,
          !.identified_clips = ic,
          !.selected_clips = sc,
          !.processed_clips = pcl,
          !.errors = er,
          !.warnings = wa,
          !.status = "clips_identified"] :
        vp \in BOOLEAN,
        ic \in SeqsUpTo(CandidateClips, MaxStandalone),
        sc \in {<<>>, <<VideoSegment(130, 170, 90)>>},
        pcl \in {<<>>, <<[success |-> TRUE, clip_index |-> 1,
                          segment_data |-> VideoSegment(30, 55, 90),
                          errors |-> <<>>]>>},
        er \in {<<>>, <<"Video download failed">>},
        wa \in {<<>>, <<"Could not fetch video metadata">>} }

InitSelect ==
    /\ state \in StandaloneStates
    /\ env \in [ MAX_CLIPS_PER_VIDEO : EnvMaxClips,
                 MIN_CLIP_DURATION : EnvMinDuration,
                 MAX_CLIP_DURATION : EnvMaxDuration ]
    /\ pc = "select_only"
    /\ invoked = <<>>
    /\ returned = initial_state

SelectOnly ==
    /\ pc = "select_only"
    /\ \E raised \in BOOLEAN :
         /\ state' = select_clips_node(state, raised, env)
         /\ invoked' = Append(invoked,
                [node |-> "select_clips",
                 outcome |-> IF raised THEN "exception" ELSE "ok"])
    /\ pc' = "select_done"
    /\ UNCHANGED <<env, returned>>

NextSelect == SelectOnly

SpecSelect == InitSelect /\ [][NextSelect]_vars

(***************************************************************************)
(* convert_to_portrait (clip_generation_node.py), a function of the clip's *)
(* size and the target resolution.  The aspect ratios are floats in the    *)
(* code; here a ratio a/b is kept exact and compared by cross              *)
(* multiplication.  The sizes below are chosen away from the points where  *)
(* float rounding and the exact value could differ.  What moviepy does     *)
(* with a size that is not positive, or with an empty crop window, is not  *)
(* decided by this code: lib_rejects picks whether such a call raises.     *)
(***************************************************************************)

SourceSizes ==
    { <<1920, 1080>>, <<1080, 1920>>, <<1081, 1920>>, <<1000, 1000>>,
      <<640, 480>>, <<3, 2>>, <<5, 7>>,
      <<0, 1080>>, <<1920, 0>>, <<-1080, -1920>>, <<-1920, 1080>> }

TargetResolutions ==
    { <<1080, 1920>>, <<1920, 1080>>, <<1080, 1080>>, <<720, 1280>>,
      <<0, 1920>>, <<1080, 0>>, <<-1080, 1920>>, <<-1080, -1920>>,
      <<1080, -1920>> }

Abs(x) == IF x < 0 THEN -x ELSE x

Sgn(x) == IF x < 0 THEN -1 ELSE IF x = 0 THEN 0 ELSE 1

Max2(a, b) == IF a >= b THEN a ELSE b

Min2(a, b) == IF a <= b THEN a ELSE b

\* a/b > c/d for b, d # 0
RatioGt(a, b, c, d) == IF b * d > 0 THEN a * d > c * b ELSE a * d < c * b

\* int(a / b) for b # 0: truncation toward zero
int(a, b) ==
    LET q == Abs(a) \div Abs(b)
    IN  IF (a < 0) = (b < 0) THEN q ELSE -q

\* a crop window [lo/den, hi/den] along axis
no_crop == [axis |-> "none", lo |-> 0, hi |-> 0, den |-> 1]

raises ==
    [operation |-> "raises", size |-> <<0, 0>>, crop |-> no_crop,
     inner |-> <<0, 0>>, offset |-> <<0, 0>>]

valid_size(size) == size[1] > 0 /\ size[2] > 0

\* clip.resized(new_size): the frame gets new_size
resized(new_size, crop, lib_rejects) ==
    IF ~valid_size(new_size) /\ lib_rejects THEN raises
    ELSE [operation |-> IF crop.axis = "none" THEN "resized" ELSE "cropped_resized",
          size |-> new_size, crop |-> crop,
          inner |-> new_size, offset |-> <<0, 0>>]

\* CompositeVideoClip([bg, positioned_clip]) takes the size of the first
\* clip only when it is the background
CompositeVideoClip_first_is_clip(bg_size, clip_size, position, lib_rejects) ==
    IF (~valid_size(bg_size) \/ ~valid_size(clip_size)) /\ lib_rejects THEN raises
    ELSE [operation |-> "composite", size |-> clip_size, crop |-> no_crop,
          inner |-> clip_size, offset |-> position]

\* CompositeVideoClip([bg, positioned_clip]): the frame has the size of its
\* first clip, bg = ColorClip(size = target); positioned_clip is the
\* resized clip placed at position
CompositeVideoClip(bg_size, clip_size, position, lib_rejects) ==
    IF (~valid_size(bg_size) \/ ~valid_size(clip_size)) /\ lib_rejects THEN raises
    ELSE [operation |-> "composite", size |-> bg_size, crop |-> no_crop,
          inner |-> clip_size, offset |-> position]

exact_aspect_match(current_width, current_height, target_width, target_height) ==
    current_width * target_height = target_width * current_height

\* abs(current_aspect - target_aspect) < 0.01, both heights # 0
within_tolerance(current_width, current_height, target_width, target_height) ==
    100 * Abs(current_width * target_height - target_width * current_height)
        < Abs(current_height * target_height)

\* "Crop vertically to fit": y1, y2 in units of 1 / (2 * |target_width|)
crop_vertically(clip_size, target_resolution, lib_rejects) ==
    LET current_width == clip_size[1]
        current_height == clip_size[2]
        target_width == target_resolution[1]
        target_height == target_resolution[2]
        den == 2 * Abs(target_width)
        half_crop == current_width * target_height * Sgn(target_width)
        y1 == Max2(0, current_height * Abs(target_width) - half_crop)
        y2 == Min2(current_height * den, y1 + 2 * half_crop)
    IN  IF y1 >= y2 /\ lib_rejects THEN raises
        ELSE resized(target_resolution,
                     [axis |-> "y", lo |-> y1, hi |-> y2, den |-> den],
                     lib_rejects)

\* "Crop horizontally to fit": x1, x2 in units of 1 / (2 * |target_height|)
crop_horizontally(clip_size, target_resolution, lib_rejects) ==
    LET current_width == clip_size[1]
        current_height == clip_size[2]
        target_width == target_resolution[1]
        target_height == target_resolution[2]
        den == 2 * Abs(target_height)
        half_crop == current_height * target_width * Sgn(target_height)
        x1 == Max2(0, current_width * Abs(target_height) - half_crop)
        x2 == Min2(current_width * den, x1 + 2 * half_crop)
    IN  IF x1 >= x2 /\ lib_rejects THEN raises
        ELSE resized(target_resolution,
                     [axis |-> "x", lo |-> x1, hi |-> x2, den |-> den],
                     lib_rejects)

\* the padding branch as a fit inside the canvas: scale to the target width
add_horizontal_padding_fit_width(clip_size, target_resolution, lib_rejects) ==
    LET new_height == int(clip_size[2] * target_resolution[1], clip_size[1])
    IN  CompositeVideoClip(target_resolution,
                           <<target_resolution[1], new_height>>,
                           <<0, (target_resolution[2] - new_height) \div 2>>,
                           lib_rejects)

\* "Add horizontal padding": resize to the target height, centre on x
add_horizontal_padding(clip_size, target_resolution, lib_rejects) ==
    LET current_width == clip_size[1]
        current_height == clip_size[2]
        target_width == target_resolution[1]
        target_height == target_resolution[2]
        new_width == int(current_width * target_height, current_height)
        x_offset == (target_width - new_width) \div 2
    IN  IF ~valid_size(<<new_width, target_height>>) /\ lib_rejects THEN raises
        ELSE CompositeVideoClip(target_resolution, <<new_width, target_height>>,
                                <<x_offset, 0>>, lib_rejects)

\* "Add vertical padding": resize to the target width, centre on y;
\* target_width / current_width raises ZeroDivisionError
add_vertical_padding(clip_size, target_resolution, lib_rejects) ==
    LET current_width == clip_size[1]
        current_height == clip_size[2]
        target_width == target_resolution[1]
        target_height == target_resolution[2]
        new_height == int(current_height * target_width, current_width)
        y_offset == (target_height - new_height) \div 2
    IN  IF current_width = 0 THEN raises
        ELSE IF ~valid_size(<<target_width, new_height>>) /\ lib_rejects THEN raises
        ELSE CompositeVideoClip(target_resolution, <<target_width, new_height>>,
                                <<0, y_offset>>, lib_rejects)

\* the two crop tests turned round: crop whenever the aspects differ
convert_to_portrait_crops(clip_size, target_resolution, lib_rejects) ==
    LET current_width == clip_size[1]
        current_height == clip_size[2]
        target_width == target_resolution[1]
        target_height == target_resolution[2]
    IN  IF target_height = 0 \/ current_height = 0 THEN raises
        ELSE IF within_tolerance(current_width, current_height,
                                 target_width, target_height)
             THEN resized(target_resolution, no_crop, lib_rejects)
        ELSE IF RatioGt(current_width, current_height, target_width, target_height)
             THEN IF target_width = 0 THEN raises
                  ELSE IF RatioGt(current_width * target_height, target_width,
                                  current_height, 1)
                       THEN crop_vertically(clip_size, target_resolution, lib_rejects)
                       ELSE add_horizontal_padding(clip_size, target_resolution,
                                                   lib_rejects)
        ELSE IF RatioGt(current_height * target_width, target_height,
                        current_width, 1)
             THEN crop_horizontally(clip_size, target_resolution, lib_rejects)
             ELSE add_vertical_padding(clip_size, target_resolution, lib_rejects)

convert_to_portrait(clip_size, target_resolution, lib_rejects) ==
    LET current_width == clip_size[1]
        current_height == clip_size[2]
        target_width == target_resolution[1]
        target_height == target_resolution[2]
    IN  IF target_height = 0 \/ current_height = 0 THEN raises
        ELSE IF within_tolerance(current_width, current_height,
                                 target_width, target_height)
             THEN resized(target_resolution, no_crop, lib_rejects)
        ELSE IF RatioGt(current_width, current_height, target_width, target_height)
             THEN \* optimal_height = current_width / target_aspect
                  IF target_width = 0 THEN raises
                  ELSE IF ~RatioGt(current_width * target_height, target_width,
                                   current_height, 1)
                       THEN crop_vertically(clip_size, target_resolution, lib_rejects)
                       ELSE add_horizontal_padding(clip_size, target_resolution,
                                                   lib_rejects)
        ELSE \* optimal_width = current_height * target_aspect
             IF ~RatioGt(current_height * target_width, target_height,
                         current_width, 1)
             THEN crop_horizontally(clip_size, target_resolution, lib_rejects)
             ELSE add_vertical_padding(clip_size, target_resolution, lib_rejects)

InitPortrait ==
    /\ state \in [ clip_size : SourceSizes, target_resolution : TargetResolutions ]
    /\ env = [ MAX_CLIPS_PER_VIDEO |-> 3, MIN_CLIP_DURATION |-> 25,
               MAX_CLIP_DURATION |-> 35 ]
    /\ pc = "convert"
    /\ invoked = <<>>
    /\ returned = raises

ConvertToPortrait ==
    /\ pc = "convert"
    /\ \E lib_rejects \in BOOLEAN :
         returned' = convert_to_portrait(state.clip_size, state.target_resolution,
                                         lib_rejects)
    /\ pc' = "converted"
    /\ UNCHANGED <<state, env, invoked>>

NextPortrait == ConvertToPortrait

SpecPortrait == InitPortrait /\ [][NextPortrait]_vars

(***************************************************************************)
(* backend/main.py: process_video_background, one coroutine per session.   *)
(* The coroutine writes the request's limits into os.environ and hands     *)
(* agent.process_video to a worker thread; select_clips_node, in that      *)
(* thread, reads them back with AppConfig.from_env().  The coroutines run  *)
(* on one event loop and have no await between their writes; the worker    *)
(* threads run beside it.  pc[s] is the position of session s with the     *)
(* coroutine's arguments and the values from_env has read so far; state[s] *)
(* is the PodcastState of its run.  The run is followed to the end of its  *)
(* selection stage.  TARGET_CLIP_DURATION and API_RATE_LIMIT_DELAY are     *)
(* written too, and from_env reads neither.                                *)
(***************************************************************************)

Sessions == {1, 2}

\* VideoRequest: 1 <= num_clips <= 10, 15 <= clip_duration <= 120
RequestNumClips == {1, 3}

RequestClipDurations == {20, 40}

\* what the scoring call returns for a video
ScorerOutputs ==
    { <<>>,
      <<VideoSegment(30, 55, 90), VideoSegment(130, 170, 90),
        VideoSegment(60, 95, 90)>> }

\* os.environ when the server starts
StartupEnv ==
    [ MAX_CLIPS_PER_VIDEO |-> 3, MIN_CLIP_DURATION |-> 25,
      MAX_CLIP_DURATION |-> 35 ]

At(s, position) == pc[s].at = position

Goto(s, position) == pc' = [pc EXCEPT ![s].at = position]

InitBackend ==
    /\ state = [s \in Sessions |-> initial_state]
    /\ env = StartupEnv
    /\ pc \in [ Sessions ->
                 { [at |-> "set_max_clips", num_clips |-> n, clip_duration |-> d,
                    getenv |-> StartupEnv] :
                   n \in RequestNumClips, d \in RequestClipDurations } ]
    /\ invoked = <<>>
    /\ returned = [s \in Sessions |-> initial_state]

\* os.environ['MAX_CLIPS_PER_VIDEO'] = str(num_clips); no other coroutine
\* is between its writes
SetMaxClips(s) ==
    /\ At(s, "set_max_clips")
    /\ \A t \in Sessions :
         pc[t].at \notin {"set_min_duration", "set_max_duration"}
    /\ env' = [env EXCEPT !.MAX_CLIPS_PER_VIDEO = pc[s].num_clips]
    /\ Goto(s, "set_min_duration")
    /\ UNCHANGED <<state, invoked, returned>>

\* os.environ['MIN_CLIP_DURATION'] = str(max(25, clip_duration - 15))
SetMinDuration(s) ==
    /\ At(s, "set_min_duration")
    /\ env' = [env EXCEPT !.MIN_CLIP_DURATION = Max2(25, pc[s].clip_duration - 15)]
    /\ Goto(s, "set_max_duration")
    /\ UNCHANGED <<state, invoked, returned>>

\* os.environ['MAX_CLIP_DURATION'] = str(clip_duration + 15), then
\* run_in_executor starts the run in a worker thread
SetMaxDuration(s) ==
    /\ At(s, "set_max_duration")
    /\ env' = [env EXCEPT !.MAX_CLIP_DURATION = pc[s].clip_duration + 15]
    /\ Goto(s, "fetch_transcript")
    /\ UNCHANGED <<state, invoked, returned>>

RunFetchTranscript(s) ==
    /\ At(s, "fetch_transcript")
    /\ \E meta_ok \in BOOLEAN, fetch_ok \in BOOLEAN :
         LET st == fetch_transcript_node(state[s], meta_ok, fetch_ok)
         IN  /\ state' = [state EXCEPT ![s] = st]
             /\ Goto(s, should_continue_after_transcript(st))
    /\ UNCHANGED <<env, invoked, returned>>

RunAnalyzeContent(s) ==
    /\ At(s, "analyze_content")
    /\ \E raised \in BOOLEAN, clips \in ScorerOutputs :
         /\ raised => clips = <<>>
         /\ LET st == analyze_content_node(state[s], raised, clips)
                next == should_continue_after_analysis(st)
            IN  /\ state' = [state EXCEPT ![s] = st]
                /\ Goto(s, IF next = "select_clips" THEN "getenv_max_clips"
                                                    ELSE next)
    /\ UNCHANGED <<env, invoked, returned>>

\* from_env: int(os.getenv('MAX_CLIPS_PER_VIDEO'))
GetenvMaxClips(s) ==
    /\ At(s, "getenv_max_clips")
    /\ pc' = [pc EXCEPT ![s].getenv.MAX_CLIPS_PER_VIDEO = env.MAX_CLIPS_PER_VIDEO,
                        ![s].at = "getenv_min_duration"]
    /\ UNCHANGED <<state, env, invoked, returned>>

\* from_env: int(os.getenv('MIN_CLIP_DURATION'))
GetenvMinDuration(s) ==
    /\ At(s, "getenv_min_duration")
    /\ pc' = [pc EXCEPT ![s].getenv.MIN_CLIP_DURATION = env.MIN_CLIP_DURATION,
                        ![s].at = "getenv_max_duration"]
    /\ UNCHANGED <<state, env, invoked, returned>>

\* from_env: int(os.getenv('MAX_CLIP_DURATION'))
GetenvMaxDuration(s) ==
    /\ At(s, "getenv_max_duration")
    /\ pc' = [pc EXCEPT ![s].getenv.MAX_CLIP_DURATION = env.MAX_CLIP_DURATION,
                        ![s].at = "select_clips"]
    /\ UNCHANGED <<state, env, invoked, returned>>

RunSelectClips(s) ==
    /\ At(s, "select_clips")
    /\ \E raised \in BOOLEAN :
         LET st == select_clips_node(state[s], raised, pc[s].getenv)
         IN  /\ state' = [state EXCEPT ![s] = st]
             /\ Goto(s, should_continue_after_selection(st))
    /\ UNCHANGED <<env, invoked, returned>>

NextBackend ==
    \E s \in Sessions :
        \/ SetMaxClips(s)
        \/ SetMinDuration(s)
        \/ SetMaxDuration(s)
        \/ RunFetchTranscript(s)
        \/ RunAnalyzeContent(s)
        \/ GetenvMaxClips(s)
        \/ GetenvMinDuration(s)
        \/ GetenvMaxDuration(s)
        \/ RunSelectClips(s)

SpecBackend == InitBackend /\ [][NextBackend]_vars

(***************************************************************************)
(* process_video(url, config): one run given configuration overrides.      *)
(* state carries the overrides as state["config"]; the entries of invoked  *)
(* record the configuration an analysis or selection stage worked with     *)
(* (fetch_transcript_node loads none).  The run is followed to the end of  *)
(* its selection stage.                                                    *)
(***************************************************************************)

\* config dicts handed to process_video: none, the keys analyze_content_node
\* looks up, and the keys cli.py builds
ConfigOverrides ==
    { [k \in {} |-> 0],
      [max_clips_per_video |-> 1],
      [max_clips_per_video |-> 2, min_clip_duration |-> 20, max_clip_duration |-> 40],
      [max_clips |-> 1, min_duration |-> 20, max_duration |-> 40, min_score |-> 75] }

Override(custom_config, key, default) ==
    IF key \in DOMAIN custom_config THEN custom_config[key] ELSE default

\* the configuration analyze_content_node works with: from_env, then the
\* overrides found in state["config"]
analysis_config(e, custom_config) ==
    LET app_config == from_env(e)
    IN  [ app_config EXCEPT
            !.max_clips_per_video =
                Override(custom_config, "max_clips_per_video", @),
            !.min_clip_duration =
                Override(custom_config, "min_clip_duration", @),
            !.max_clip_duration =
                Override(custom_config, "max_clip_duration", @) ]

\* the configuration select_clips_node works with
selection_config(e, custom_config) == from_env(e)

InitConfig ==
    /\ \E c \in ConfigOverrides : state = initial_state @@ [config |-> c]
    /\ env \in [ MAX_CLIPS_PER_VIDEO : EnvMaxClips,
                 MIN_CLIP_DURATION : EnvMinDuration,
                 MAX_CLIP_DURATION : EnvMaxDuration ]
    /\ pc = "fetch_transcript"
    /\ invoked = <<>>
    /\ returned = initial_state

ConfigFetchTranscript ==
    /\ pc = "fetch_transcript"
    /\ \E meta_ok \in BOOLEAN, fetch_ok \in BOOLEAN :
         LET st == fetch_transcript_node(state, meta_ok, fetch_ok)
         IN  /\ state' = st
             /\ invoked' = Append(invoked,
                    [node |-> "fetch_transcript",
                     outcome |-> IF fetch_ok THEN "ok" ELSE "exception"])
             /\ pc' = should_continue_after_transcript(st)
    /\ UNCHANGED <<env, returned>>

ConfigAnalyzeContent ==
    /\ pc = "analyze_content"
    /\ \E raised \in BOOLEAN, clips \in SeqsUpTo(CandidateClips, MaxStandalone) :
         /\ raised => clips = <<>>
         /\ LET st == analyze_content_node(state, raised, clips)
            IN  /\ state' = st
                /\ invoked' = Append(invoked,
                       [node |-> "analyze_content",
                        outcome |-> IF raised THEN "exception" ELSE "ok",
                        config |-> analysis_config(env, state.config)])
                /\ pc' = should_continue_after_analysis(st)
    /\ UNCHANGED <<env, returned>>

ConfigSelectClips ==
    /\ pc = "select_clips"
    /\ \E raised \in BOOLEAN :
         LET st == select_clips_node(state, raised, env)
         IN  /\ state' = st
             /\ invoked' = Append(invoked,
                    [node |-> "select_clips",
                     outcome |-> IF raised THEN "exception" ELSE "ok",
                     config |-> selection_config(env, state.config)])
             /\ pc' = should_continue_after_selection(st)
    /\ UNCHANGED <<env, returned>>

NextConfig ==
    \/ ConfigFetchTranscript
    \/ ConfigAnalyzeContent
    \/ ConfigSelectClips

SpecConfig == InitConfig /\ [][NextConfig]_vars

(***************************************************************************)
(* backend/main.py: one session from POST /api/process-video to the last   *)
(* send_update.  Here returned is the backend's record of the session:     *)
(* request (the coroutine's arguments), result (what process_video         *)
(* returned), processing_status (processing_status[session_id]), sent (the *)
(* updates the WebSocket took) and delivery (how each send ended).  The    *)
(* stages of the run are the actions of the pipeline above.                *)
(***************************************************************************)

SessionRequests ==
    { [num_clips |-> 3, clip_duration |-> 20],
      [num_clips |-> 1, clip_duration |-> 40] }

\* the WebSocket took the update, send_text raised, or no socket is
\* registered in active_sessions
Deliveries == {"sent", "raised", "no_socket"}

ProgressUpdate(status, message, clips) ==
    [status |-> status, message |-> message, clips |-> clips]

\* the status is stored only once the socket took the update
send_update_store_after_send(session, status, message, clips, delivery) ==
    LET update == ProgressUpdate(status, message, clips)
    IN  [ session EXCEPT
            !.processing_status = IF delivery = "sent" THEN update ELSE @,
            !.sent = IF delivery = "sent" THEN Append(@, update) ELSE @,
            !.delivery = Append(@, delivery) ]

\* send_update: store the update, then send it if a socket is connected;
\* an exception of send_text is swallowed
send_update(session, status, message, clips, delivery) ==
    LET update == ProgressUpdate(status, message, clips)
    IN  [ session EXCEPT
            !.processing_status = update,
            !.sent = IF delivery = "sent" THEN Append(@, update) ELSE @,
            !.delivery = Append(@, delivery) ]

\* clips_info: one entry per pair of zip(processed_clips, selected_clips)
clips_info(result) ==
    [ i \in 1..Min2(Len(result.processed_clips), Len(result.selected_clips)) |->
        [ id |-> i,
          duration |-> result.selected_clips[i].end_time
                         - result.selected_clips[i].start_time,
          score |-> result.selected_clips[i].score ] ]

InitSession ==
    /\ state = initial_state
    /\ env = StartupEnv
    /\ pc = "send_processing"
    /\ invoked = <<>>
    /\ \E r \in SessionRequests :
         returned = [ request |-> r,
                      result |-> initial_state,
                      processing_status |-> ProgressUpdate("starting", "Initializing...", <<>>),
                      sent |-> <<>>,
                      delivery |-> <<>> ]

\* await send_update("processing", ...)
SendProcessing ==
    /\ pc = "send_processing"
    /\ \E delivery \in Deliveries :
         returned' = send_update(returned, "processing", "Processing your video...",
                                 <<>>, delivery)
    /\ pc' = "set_environ"
    /\ UNCHANGED <<state, env, invoked>>

\* the os.environ writes and run_in_executor; raised: the executor could
\* not take the run
SetEnvironAndRun ==
    /\ pc = "set_environ"
    /\ env' = [ MAX_CLIPS_PER_VIDEO |-> returned.request.num_clips,
                MIN_CLIP_DURATION |-> Max2(25, returned.request.clip_duration - 15),
                MAX_CLIP_DURATION |-> returned.request.clip_duration + 15 ]
    /\ \E raised \in BOOLEAN :
         pc' = IF raised THEN "send_failed" ELSE "fetch_transcript"
    /\ UNCHANGED <<state, invoked, returned>>

SessionAnalyzeContent ==
    /\ pc = "analyze_content"
    /\ \E raised \in BOOLEAN, clips \in ScorerOutputs :
         /\ raised => clips = <<>>
         /\ LET st == analyze_content_node(state, raised, clips)
            IN  /\ state' = st
                /\ invoked' = Append(invoked,
                       [node |-> "analyze_content",
                        outcome |-> IF raised THEN "exception" ELSE "ok"])
                /\ pc' = should_continue_after_analysis(st)
    /\ UNCHANGED <<env, returned>>

\* process_video after graph.invoke, as Finish
SessionFinish ==
    /\ pc = "END"
    /\ IF print_summary_raises(state)
       THEN \E shared \in BOOLEAN :
              returned' = [returned EXCEPT !.result =
                  [initial_state EXCEPT
                      !.errors = Append(IF shared THEN state.errors ELSE <<>>,
                                        "Workflow execution failed"),
                      !.warnings = IF shared THEN state.warnings ELSE <<>>,
                      !.status = "failed",
                      !.completed_at = TRUE]]
       ELSE returned' = [returned EXCEPT !.result =
                            [state EXCEPT !.completed_at = TRUE]]
    /\ pc' = "send_completed"
    /\ UNCHANGED <<state, env, invoked>>

\* await send_update("completed", ...) with the clips of the result
SendCompleted ==
    /\ pc = "send_completed"
    /\ \E delivery \in Deliveries :
         returned' = send_update(returned, "completed", "Successfully generated clips",
                                 clips_info(returned.result), delivery)
    /\ pc' = "session_done"
    /\ UNCHANGED <<state, env, invoked>>

\* the except branch: await send_update("failed", ...)
SendFailed ==
    /\ pc = "send_failed"
    /\ \E delivery \in Deliveries :
         returned' = send_update(returned, "failed", "Processing failed", <<>>, delivery)
    /\ pc' = "session_done"
    /\ UNCHANGED <<state, env, invoked>>

NextSession ==
    \/ SendProcessing
    \/ SetEnvironAndRun
    \/ FetchTranscript
    \/ SessionAnalyzeContent
    \/ SelectClips
    \/ DownloadVideo
    \/ GenerateClips
    \/ GenerateMetadata
    \/ SessionFinish
    \/ SendCompleted
    \/ SendFailed

SpecSession == InitSession /\ [][NextSession]_vars

\* the event loop keeps running the coroutine, and every collaborator call
\* returns or raises: a step that can be taken is taken
SpecSessionFair == SpecSession /\ WF_vars(NextSession)

(***************************************************************************)
(* cli.py, process_video: the run, then the report on its result.  The     *)
(* report is appended to invoked: outcome is the branch taken and saved    *)
(* tells whether analysis_summary.json was written.                        *)
(***************************************************************************)

\* "Check results" (cli.py 151-178)
cli_report(result) ==
    IF result.status = "clips_selected"
    THEN [node |-> "cli", outcome |-> "success", saved |-> TRUE]
    ELSE IF result.status \in {"no_clips_found", "no_clips_selected"}
    THEN [node |-> "cli", outcome |-> "no_clips", saved |-> FALSE]
    ELSE [node |-> "cli", outcome |-> "failed", saved |-> FALSE]

CliReport ==
    /\ pc = "returned"
    /\ invoked' = Append(invoked, cli_report(returned))
    /\ pc' = "reported"
    /\ UNCHANGED <<state, env, returned>>

NextCli ==
    \/ Next
    \/ CliReport

SpecCli == Init /\ [][NextCli]_vars

(***************************************************************************)
(* The run with the video's length.  state carries video_duration, which   *)
(* fetch_transcript_node takes from the metadata and download_video_node   *)
(* from the downloaded file; returned holds the video behind the url.  The *)
(* scorer's clips carry whatever times the model's answer names.           *)
(***************************************************************************)

\* the length in seconds of the video behind the url
VideoLengths == {60, 90}

\* clips parse_full_transcript_response builds from the scorer's answer:
\* inside a 60 s video, past its end, before its start, and reversed
TimedClips ==
    { VideoSegment(0, 30, 80), VideoSegment(50, 80, 90),
      VideoSegment(-5, 25, 80), VideoSegment(40, 10, 80) }

\* get_video_metadata returned a length, returned none, or raised
MetadataOutcomes == {"length", "no_length", "raised"}

\* state["video_duration"] after the metadata block (transcript_node 36-51)
metadata_video_duration(meta, length) ==
    IF meta = "length" /\ length # 0 THEN length ELSE 0

InitTimed ==
    /\ state = initial_state @@ [video_duration |-> "None"]
    /\ env \in [ MAX_CLIPS_PER_VIDEO : EnvMaxClips,
                 MIN_CLIP_DURATION : EnvMinDuration,
                 MAX_CLIP_DURATION : EnvMaxDuration ]
    /\ pc = "fetch_transcript"
    /\ invoked = <<>>
    /\ returned \in [ duration : VideoLengths ]

TimedFetchTranscript ==
    /\ pc = "fetch_transcript"
    /\ \E meta \in MetadataOutcomes, fetch_ok \in BOOLEAN :
         LET st == fetch_transcript_node(state, meta # "raised", fetch_ok)
         IN  /\ state' = [st EXCEPT !.video_duration =
                              metadata_video_duration(meta, returned.duration)]
             /\ invoked' = Append(invoked,
                    [node |-> "fetch_transcript",
                     outcome |-> IF fetch_ok THEN "ok" ELSE "exception"])
             /\ pc' = should_continue_after_transcript(st)
    /\ UNCHANGED <<env, returned>>

TimedAnalyzeContent ==
    /\ pc = "analyze_content"
    /\ \E raised \in BOOLEAN, clips \in SeqsUpTo(TimedClips, MaxStandalone) :
         /\ raised => clips = <<>>
         /\ LET st == analyze_content_node(state, raised, clips)
            IN  /\ state' = st
                /\ invoked' = Append(invoked,
                       [node |-> "analyze_content",
                        outcome |-> IF raised THEN "exception" ELSE "ok"])
                /\ pc' = should_continue_after_analysis(st)
    /\ UNCHANGED <<env, returned>>

TimedSelectClips ==
    /\ pc = "select_clips"
    /\ \E raised \in BOOLEAN :
         LET st == select_clips_node(state, raised, env)
         IN  /\ state' = st
             /\ invoked' = Append(invoked,
                    [node |-> "select_clips",
                     outcome |-> IF raised THEN "exception" ELSE "ok"])
             /\ pc' = should_continue_after_selection(st)
    /\ UNCHANGED <<env, returned>>

\* state["video_duration"] = float(video_info.get('duration', 0)), line 110
TimedDownloadVideo ==
    /\ pc = "download_video"
    /\ \E long \in BOOLEAN, raised \in BOOLEAN :
         LET st == download_video_node(state, long, raised)
         IN  /\ state' = IF raised THEN st
                         ELSE [st EXCEPT !.video_duration = returned.duration]
             /\ invoked' = Append(invoked,
                    [node |-> "download_video",
                     outcome |-> IF raised THEN "exception" ELSE "ok"])
             /\ pc' = should_continue_after_download(st)
    /\ UNCHANGED <<env, returned>>

NextTimed ==
    \/ TimedFetchTranscript
    \/ TimedAnalyzeContent
    \/ TimedSelectClips
    \/ TimedDownloadVideo

SpecTimed == InitTimed /\ [][NextTimed]_vars

(***************************************************************************)
(* backend/main.py: one request from POST /api/process-video to the        *)
(* configuration its run works with.  state is the request body, returned  *)
(* the answer to the POST; the entries of invoked record the target        *)
(* duration analyze_content_node hands to the scorer and the configuration *)
(* select_clips_node loads.                                                *)
(***************************************************************************)

\* bodies a client may post
PostedNumClips == {0, 1, 3, 10, 11}

PostedClipDurations == {14, 15, 20, 30, 40, 44, 45, 46, 60, 90, 120, 121}

\* ProcessingConfig.target_clip_duration, which from_env leaves at its default
target_clip_duration == 30

\* the validators of VideoRequest
validate_num_clips(v) == ~(v < 1 \/ v > 10)

validate_clip_duration(v) == ~(v < 15 \/ v > 120)

\* target_duration of create_full_transcript_prompt: from_env, then the
\* override found in state["config"]
analysis_target_duration(e, custom_config) ==
    Override(custom_config, "target_clip_duration", target_clip_duration)

InitRequest ==
    /\ state \in [ num_clips : PostedNumClips, clip_duration : PostedClipDurations ]
    /\ env = StartupEnv
    /\ pc = "post"
    /\ invoked = <<>>
    /\ returned = "none"

\* POST /api/process-video: the body is validated, then the task is queued
PostProcessVideo ==
    /\ pc = "post"
    /\ IF validate_num_clips(state.num_clips)
            /\ validate_clip_duration(state.clip_duration)
       THEN returned' = "Processing started" /\ pc' = "set_environ"
       ELSE returned' = "422" /\ pc' = "rejected"
    /\ UNCHANGED <<state, env, invoked>>

\* the os.environ writes of process_video_background
RequestSetEnviron ==
    /\ pc = "set_environ"
    /\ env' = [ MAX_CLIPS_PER_VIDEO |-> state.num_clips,
                TARGET_CLIP_DURATION |-> state.clip_duration,
                MIN_CLIP_DURATION |-> Max2(25, state.clip_duration - 15),
                MAX_CLIP_DURATION |-> state.clip_duration + 15 ]
    /\ pc' = "analyze_content"
    /\ UNCHANGED <<state, invoked, returned>>

\* agent.process_video(youtube_url): no config overrides
RequestAnalyzeContent ==
    /\ pc = "analyze_content"
    /\ invoked' = Append(invoked,
           [node |-> "analyze_content",
            target_duration |-> analysis_target_duration(env, <<>>)])
    /\ pc' = "select_clips"
    /\ UNCHANGED <<state, env, returned>>

RequestSelectClips ==
    /\ pc = "select_clips"
    /\ invoked' = Append(invoked,
           [node |-> "select_clips", config |-> selection_config(env, <<>>)])
    /\ pc' = "configured"
    /\ UNCHANGED <<state, env, returned>>

NextRequest ==
    \/ PostProcessVideo
    \/ RequestSetEnviron
    \/ RequestAnalyzeContent
    \/ RequestSelectClips

SpecRequest == InitRequest /\ [][NextRequest]_vars

(***************************************************************************)
(* backend/main.py: the WebSockets of one session.  env is active_sessions *)
(* (session id -> socket), returned is processing_status[session_id],      *)
(* state holds the sockets: accepted (every socket the endpoint accepted), *)
(* open (those whose handler is still in its receive loop) and received    *)
(* (the updates each socket was sent).  invoked lists the updates          *)
(* process_video_background issued; pc is its position.  The event loop    *)
(* runs each handler between two awaits as one step.                       *)
(***************************************************************************)

Sockets == {"ws1", "ws2", "ws3"}

SessionId == "session"

no_sessions == [k \in {} |-> "ws1"]

InitSockets ==
    /\ state = [ accepted |-> {}, open |-> {},
                 received |-> [w \in Sockets |-> <<>>] ]
    /\ env = no_sessions
    /\ pc = "send_processing"
    /\ invoked = <<>>
    /\ returned = ProgressUpdate("starting", "Initializing...", <<>>)

\* websocket_endpoint up to its receive loop: accept, register, send the
\* current status
WebSocketConnect ==
    \E w \in Sockets \ state.accepted :
        /\ state' = [ state EXCEPT
                        !.accepted = @ \cup {w},
                        !.open = @ \cup {w},
                        !.received[w] = Append(@, returned) ]
        /\ env' = [k \in {SessionId} |-> w]
        /\ UNCHANGED <<pc, invoked, returned>>

\* receive_text raises WebSocketDisconnect in the handler of w
WebSocketDisconnect ==
    \E w \in state.open :
        /\ state' = [state EXCEPT !.open = @ \ {w}]
        /\ env' = IF SessionId \in DOMAIN env THEN no_sessions ELSE env
        /\ UNCHANGED <<pc, invoked, returned>>

\* send_update of process_video_background; send_text on a socket that is
\* no longer open raises and the exception is swallowed
SocketSendUpdate ==
    /\ pc \in {"send_processing", "send_final"}
    /\ \E status \in IF pc = "send_processing" THEN {"processing"}
                     ELSE {"completed", "failed"} :
         LET update == ProgressUpdate(status, status, <<>>)
         IN  /\ returned' = update
             /\ invoked' = Append(invoked, update)
             /\ state' = IF SessionId \in DOMAIN env /\ env[SessionId] \in state.open
                         THEN [state EXCEPT !.received[env[SessionId]] = Append(@, update)]
                         ELSE state
    /\ pc' = IF pc = "send_processing" THEN "send_final" ELSE "session_done"
    /\ UNCHANGED env

NextSockets ==
    \/ WebSocketConnect
    \/ WebSocketDisconnect
    \/ SocketSendUpdate

SpecSockets == InitSockets /\ [][NextSockets]_vars

(***************************************************************************)
(* Properties                                                              *)
(***************************************************************************)

Ran(n) == \E i \in DOMAIN invoked : invoked[i].node = n

RanWith(n, o) == \E i \in DOMAIN invoked : invoked[i].node = n /\ invoked[i].outcome = o

IsPrefix(s, t) == Len(s) <= Len(t) /\ \A i \in DOMAIN s : s[i] = t[i]

Duration(c) == c.end_time - c.start_time

\* a candidate the claims call rejected: outside the duration window or
\* below the score threshold
Rejected(c) ==
    \/ Duration(c) < env.MIN_CLIP_DURATION
    \/ Duration(c) > env.MAX_CLIP_DURATION
    \/ c.score < min_engagement_score

\* the candidates of identified_clips that are not rejected, in list order
Survivors == SelectSeq(state.identified_clips, LAMBDA c : ~Rejected(c))

\* C1: every clip that select_clips_node puts in selected_clips has a
\* duration in the closed range [min_clip_duration, max_clip_duration] and a
\* score of at least min_engagement_score.
C1_SelectedWithinLimits ==
    \A i \in DOMAIN state.selected_clips :
        LET c == state.selected_clips[i]
        IN  /\ Duration(c) >= env.MIN_CLIP_DURATION
            /\ Duration(c) <= env.MAX_CLIP_DURATION
            /\ c.score >= min_engagement_score

\* a selection made from a list that held a too-short, a too-long or a
\* low-scored candidate, and that kept a clip of boundary duration
C1_Witness ==
    /\ state.selected_clips # <<>>
    /\ \E i \in DOMAIN state.identified_clips :
         Duration(state.identified_clips[i]) > env.MAX_CLIP_DURATION
    /\ \E i \in DOMAIN state.identified_clips :
         state.identified_clips[i].score < min_engagement_score
    /\ \E i \in DOMAIN state.selected_clips :
         Duration(state.selected_clips[i]) = env.MAX_CLIP_DURATION

\* position of survivor i in a score-descending order that keeps equal scores
\* in list order: behind every higher score and every earlier equal score
StableRank(surv, i) ==
    1 + Cardinality({ j \in DOMAIN surv : surv[j].score > surv[i].score })
      + Cardinality({ j \in DOMAIN surv : j < i /\ surv[j].score = surv[i].score })

\* C2: the clips that survive validation come out ordered by score
\* descending, and clips of equal score keep the relative order they had in
\* identified_clips; selected_clips is an initial part of that order.
C2_StableScoreOrder ==
    RanWith("select_clips", "ok") =>
        /\ Len(state.selected_clips) <= Len(Survivors)
        /\ \A i \in DOMAIN Survivors :
             StableRank(Survivors, i) <= Len(state.selected_clips)
                 => state.selected_clips[StableRank(Survivors, i)] = Survivors[i]

\* the example of the claim: a lower score first, then two different clips of
\* one higher score, which come out in list order ahead of it
C2_Witness ==
    /\ Len(state.identified_clips) = 3
    /\ Len(state.selected_clips) = 3
    /\ state.identified_clips[1].score < state.identified_clips[2].score
    /\ state.identified_clips[2].score = state.identified_clips[3].score
    /\ state.identified_clips[2] # state.identified_clips[3]
    /\ state.selected_clips[1] = state.identified_clips[2]
    /\ state.selected_clips[2] = state.identified_clips[3]
    /\ state.selected_clips[3] = state.identified_clips[1]

\* C3: select(ranked, n) returns exactly min(n, len(ranked)) clips, the
\* first ones of the ranked list in unchanged order, for every ranked list
\* and every max_clips_per_video n (a count below zero is read as zero).
C3_PrefixOfMinLength ==
    RanWith("select_clips", "ok") =>
        LET ranked == sort_by_score(validated_clips(state.identified_clips, from_env(env)))
            n == env.MAX_CLIPS_PER_VIDEO
            m == IF n < Len(ranked) THEN n ELSE Len(ranked)
        IN  /\ Len(state.selected_clips) = (IF m < 0 THEN 0 ELSE m)
            /\ IsPrefix(state.selected_clips, ranked)

\* C4: whenever a stage catches an exception from its external collaborator
\* (transcript fetch, scoring call, video download, clip extraction), the
\* status of the run becomes 'failed' and no later stage is invoked.
C4_CaughtExceptionDrivesFailed ==
    \A i \in DOMAIN invoked :
        (/\ invoked[i].outcome = "exception"
         /\ invoked[i].node \in {"fetch_transcript", "analyze_content",
                                  "download_video", "generate_clips"})
            => (state.status = "failed" /\ i = Len(invoked))

\* C5: a run whose scoring stage succeeds with zero candidate clips halts
\* with status 'no_clips_identified' and a recorded warning that no clips
\* were identified.
C5_EmptyScoringIsNoClipsIdentified ==
    (/\ pc \in {"END", "returned"}
     /\ RanWith("analyze_content", "ok")
     /\ state.identified_clips = <<>>)
        => /\ state.status = "no_clips_identified"
           /\ \E i \in DOMAIN state.warnings :
                state.warnings[i] = "No clips identified by analysis"

\* C6: a run whose transcript fetch fails returns status 'failed', a
\* non-empty errors list and empty selected_clips and processed_clips, and
\* no stage after fetch_transcript is ever invoked.
C6_TranscriptFailure ==
    RanWith("fetch_transcript", "exception") =>
        /\ Len(invoked) = 1
        /\ state.selected_clips = <<>>
        /\ state.processed_clips = <<>>
        /\ pc = "returned" =>
             /\ returned.status = "failed"
             /\ returned.errors # <<>>
             /\ returned.selected_clips = <<>>
             /\ returned.processed_clips = <<>>

C6_Witness ==
    /\ pc = "returned"
    /\ RanWith("fetch_transcript", "exception")

\* C7: a run in which validation rejects every candidate ends with status
\* 'no_clips_passed_validation', empty selected_clips, non-empty warnings
\* and empty errors, and download, generation and metadata never run.
C7_AllRejected ==
    (/\ RanWith("select_clips", "ok")
     /\ \A i \in DOMAIN state.identified_clips : Rejected(state.identified_clips[i]))
        => /\ state.status = "no_clips_passed_validation"
           /\ state.selected_clips = <<>>
           /\ state.warnings # <<>>
           /\ state.errors = <<>>
           /\ ~Ran("download_video") /\ ~Ran("generate_clips") /\ ~Ran("generate_metadata")
           /\ pc = "returned" =>
                /\ returned.status = "no_clips_passed_validation"
                /\ returned.selected_clips = <<>>
                /\ returned.warnings # <<>>
                /\ returned.errors = <<>>

\* three candidates, each rejected for a different reason, and the run over
C7_Witness ==
    /\ pc = "returned"
    /\ RanWith("select_clips", "ok")
    /\ Len(state.identified_clips) = 3
    /\ \A i \in DOMAIN state.identified_clips : Rejected(state.identified_clips[i])
    /\ \E i \in DOMAIN state.identified_clips :
         Duration(state.identified_clips[i]) < env.MIN_CLIP_DURATION
    /\ \E i \in DOMAIN state.identified_clips :
         Duration(state.identified_clips[i]) > env.MAX_CLIP_DURATION
    /\ \E i \in DOMAIN state.identified_clips :
         state.identified_clips[i].score < min_engagement_score

\* the nodes in the order the graph wires them
StageOrder ==
    << "fetch_transcript", "analyze_content", "select_clips",
       "download_video", "generate_clips", "generate_metadata" >>

\* the status a stage writes when it advances, in stage order
AdvanceStatus ==
    << "transcript_fetched", "clips_identified", "clips_selected",
       "video_downloaded", "clips_generated", "metadata_generated" >>

\* position of a status on the success path; every other value is terminal
StatusRank(s) ==
    IF s = "starting" THEN 0
    ELSE IF \E k \in DOMAIN AdvanceStatus : AdvanceStatus[k] = s
         THEN CHOOSE k \in DOMAIN AdvanceStatus : AdvanceStatus[k] = s
         ELSE Len(AdvanceStatus) + 1

\* C8: the stages run in the fixed order fetch_transcript, analyze_content,
\* select_clips, download_video, generate_clips, generate_metadata, each at
\* most once; a stage runs only when the stage before it ran and advanced;
\* status never moves back along the success path and never leaves a
\* terminal value.
C8_StageOrderAndMonotoneStatus ==
    [][ /\ Len(invoked') <= Len(StageOrder)
        /\ \A k \in DOMAIN invoked' : invoked'[k].node = StageOrder[k]
        /\ invoked' # invoked =>
             /\ Len(invoked') = Len(invoked) + 1
             /\ state.status = (IF invoked = <<>> THEN "starting"
                                ELSE AdvanceStatus[Len(invoked)])
        /\ StatusRank(state'.status) >= StatusRank(state.status)
        /\ StatusRank(state.status) > Len(AdvanceStatus) => state'.status = state.status
      ]_vars

\* a run that went through all six stages
C8_Witness ==
    /\ Len(invoked) = 6
    /\ state.status = "metadata_generated"
    /\ pc = "returned"

\* C9: once a stage has appended an entry to errors, identified_clips,
\* selected_clips and processed_clips are never modified again and no
\* further stage function is invoked, whichever status that stage wrote.
C9_NothingRunsAfterError ==
    [][ state.errors # <<>> =>
          /\ state'.identified_clips = state.identified_clips
          /\ state'.selected_clips = state.selected_clips
          /\ state'.processed_clips = state.processed_clips
          /\ invoked' = invoked
      ]_vars

\* a finished run whose failing stage recorded an error without writing
\* 'failed': the analysis exception
C9_Witness ==
    /\ pc = "returned"
    /\ state.errors # <<>>
    /\ state.status = "analysis_failed"

\* C10: errors and warnings are append-only: across every stage the previous
\* contents of errors and of warnings are a prefix of the new contents.
C10_AppendOnly ==
    [][ /\ IsPrefix(state.errors, state'.errors)
        /\ IsPrefix(state.warnings, state'.warnings)
      ]_vars

\* warnings from three different stages and an error accumulated in one run
C10_Witness ==
    /\ Len(state.warnings) >= 3
    /\ Len(state.errors) >= 1
    /\ Ran("generate_metadata")

\* the step leaves every field of the state outside S as it was
FrameExcept(S) == \A f \in (DOMAIN state) \ S : state'[f] = state[f]

\* C11 (as claimed): running only select_clips_node changes no field other
\* than the candidate clips (replaced by the survivors), warnings and status;
\* video_path and processed_clips in particular stay as they were.
C11_FrameWithoutErrors ==
    [][ FrameExcept({"identified_clips", "selected_clips", "warnings", "status"}) ]_vars

\* C11 (amended): running only select_clips_node changes no field other than
\* selected_clips, warnings, status and errors; errors is only appended to,
\* and only on the path that writes 'selection_failed'.
C11_FrameWithErrors ==
    [][ /\ FrameExcept({"selected_clips", "warnings", "status", "errors"})
        /\ IsPrefix(state.errors, state'.errors)
        /\ state'.errors # state.errors => state'.status = "selection_failed"
      ]_vars

\* the node has run, and failed, on a state that already held a video path,
\* a processed clip and an earlier error
C11_Witness ==
    /\ pc = "select_done"
    /\ state.video_path
    /\ state.processed_clips # <<>>
    /\ state.status = "selection_failed"
    /\ Len(state.errors) = 2

\* number of entries of a sequence that satisfy a test
CountIn(seq, Test(_)) == Cardinality({ i \in DOMAIN seq : Test(seq[i]) })

\* C12: a clip that fails to extract or encode does not abort the batch:
\* when generate_clips_node ends without a stage-level error, processed_clips
\* holds one result per selected clip in the order of selected_clips (result
\* i carries segment i and clip_index i), every failed result has
\* success = false and a non-empty errors list, and each failure was noted.
C12_OneResultPerClip ==
    RanWith("generate_clips", "ok") =>
        /\ Len(state.processed_clips) = Len(state.selected_clips)
        /\ \A i \in DOMAIN state.processed_clips :
             /\ state.processed_clips[i].clip_index = i
             /\ state.processed_clips[i].segment_data = state.selected_clips[i]
             /\ state.processed_clips[i].success <=> state.processed_clips[i].errors = <<>>
        /\ CountIn(state.processed_clips, LAMBDA c : ~c.success)
             = CountIn(state.warnings, LAMBDA w : w = "Failed to generate clip")

\* a batch of three whose first clip failed and whose later clips went through
C12_Witness ==
    /\ RanWith("generate_clips", "ok")
    /\ Len(state.processed_clips) = 3
    /\ ~state.processed_clips[1].success
    /\ state.processed_clips[2].success
    /\ state.processed_clips[3].success

\* every entry of s occurs in t
AllIn(s, t) == \A i \in DOMAIN s : \E j \in DOMAIN t : t[j] = s[i]

Converted == pc = "converted"

AllPositive ==
    /\ state.clip_size[1] > 0 /\ state.clip_size[2] > 0
    /\ state.target_resolution[1] > 0 /\ state.target_resolution[2] > 0

\* |sourceAspect - targetAspect| < 0.01, for positive sizes
AspectsWithinTolerance ==
    LET d == state.clip_size[1] * state.target_resolution[2]
               - state.target_resolution[1] * state.clip_size[2]
    IN  100 * (IF d < 0 THEN -d ELSE d)
          < state.clip_size[2] * state.target_resolution[2]

\* sourceAspect > targetAspect, for positive sizes
SourceWider ==
    state.clip_size[1] * state.target_resolution[2]
        > state.target_resolution[1] * state.clip_size[2]

\* optimalHeight = sourceWidth / targetAspect > sourceHeight, positive sizes
OptimalHeightExceeds ==
    state.clip_size[1] * state.target_resolution[2]
        > state.clip_size[2] * state.target_resolution[1]

\* optimalWidth = sourceHeight * targetAspect > sourceWidth, positive sizes
OptimalWidthExceeds ==
    state.clip_size[2] * state.target_resolution[1]
        > state.clip_size[1] * state.target_resolution[2]

\* n = a / b truncated, for a >= 0, b > 0
IsTruncated(n, a, b) == n * b <= a /\ a < (n + 1) * b

\* o = d / 2 rounded down
IsHalfOf(o, d) == 2 * o <= d /\ d < 2 * o + 2

\* C14: for all positive source and target sizes the frame the transform
\* produces has exactly the target width and height, in every branch.
C14_FrameHasTargetSize ==
    (Converted /\ AllPositive) =>
        /\ returned.operation # "raises"
        /\ returned.size = state.target_resolution

\* a 4:3 source padded onto a square canvas
C14_Witness ==
    /\ Converted
    /\ state.clip_size = <<640, 480>>
    /\ state.target_resolution = <<1080, 1080>>
    /\ returned.operation = "composite"
    /\ returned.inner = <<1440, 1080>>
    /\ returned.size = <<1080, 1080>>

\* C15: when the source size equals the target size, and whenever the two
\* aspect ratios differ by less than 0.01, the transform is a direct resize
\* to the target size, with no crop and no padding.
C15_DirectResizeWithinTolerance ==
    (Converted /\ AllPositive
       /\ (state.clip_size = state.target_resolution \/ AspectsWithinTolerance)) =>
        /\ returned.operation = "resized"
        /\ returned.size = state.target_resolution
        /\ returned.crop.axis = "none"
        /\ returned.offset = <<0, 0>>

\* aspects 1081/1920 and 1080/1920 differ by less than 0.01 and are not equal
C15_Witness ==
    /\ Converted
    /\ state.clip_size = <<1081, 1920>>
    /\ state.target_resolution = <<1080, 1920>>
    /\ returned.operation = "resized"

\* C16: for source 1920x1080 and target 1080x1920 the transform resizes the
\* source to width 1080 (height 607) and pads vertically: vertical offset
\* about 656, horizontal offset 0.
C16_LandscapeToPortraitExample ==
    (Converted /\ state.clip_size = <<1920, 1080>>
       /\ state.target_resolution = <<1080, 1920>>) =>
        /\ returned.operation = "composite"
        /\ returned.inner = <<1080, 607>>
        /\ returned.offset[1] = 0
        /\ returned.offset[2] \in {656, 657}

\* C17: beyond the tolerance, a relatively wider source is scaled to the
\* target height, newWidth = sourceWidth * targetHeight / sourceHeight
\* truncated, and placed at ((targetWidth - newWidth) / 2, 0) on a canvas
\* of the target size; a relatively narrower source is scaled to the target
\* width, newHeight = sourceHeight * targetWidth / sourceWidth truncated,
\* and placed at (0, (targetHeight - newHeight) / 2).  The halves are
\* rounded down.
C17_PadPlacement ==
    (Converted /\ AllPositive /\ ~AspectsWithinTolerance) =>
        /\ (SourceWider /\ OptimalHeightExceeds) =>
             /\ returned.operation = "composite"
             /\ returned.size = state.target_resolution
             /\ returned.inner[2] = state.target_resolution[2]
             /\ IsTruncated(returned.inner[1],
                            state.clip_size[1] * state.target_resolution[2],
                            state.clip_size[2])
             /\ IsHalfOf(returned.offset[1],
                         state.target_resolution[1] - returned.inner[1])
             /\ returned.offset[2] = 0
        /\ (~SourceWider /\ OptimalWidthExceeds) =>
             /\ returned.operation = "composite"
             /\ returned.size = state.target_resolution
             /\ returned.inner[1] = state.target_resolution[1]
             /\ IsTruncated(returned.inner[2],
                            state.clip_size[2] * state.target_resolution[1],
                            state.clip_size[1])
             /\ IsHalfOf(returned.offset[2],
                         state.target_resolution[2] - returned.inner[2])
             /\ returned.offset[1] = 0

\* a landscape source on a portrait canvas: scaled to 3413x1920, placed at
\* x = -1167
C17_Witness ==
    /\ Converted
    /\ state.clip_size = <<1920, 1080>>
    /\ state.target_resolution = <<1080, 1920>>
    /\ returned.inner = <<3413, 1920>>
    /\ returned.offset = <<-1167, 0>>

\* C19: whenever one of sourceWidth, sourceHeight, targetWidth,
\* targetHeight is zero or negative, convert_to_portrait raises instead of
\* returning a frame.
C19_RaisesOnNonPositiveSize ==
    (Converted /\ ~AllPositive) => returned.operation = "raises"

\* C20: runs the backend processes concurrently are isolated: under every
\* interleaving the selection stage of a run applies the limits of its own
\* request, so the run never has more selected clips than its num_clips and
\* every selected clip lies in the duration window derived from its own
\* clip_duration.
C20_OwnLimitsApplied ==
    \A s \in Sessions :
        /\ Len(state[s].selected_clips) <= pc[s].num_clips
        /\ \A i \in DOMAIN state[s].selected_clips :
             /\ Duration(state[s].selected_clips[i])
                  >= Max2(25, pc[s].clip_duration - 15)
             /\ Duration(state[s].selected_clips[i])
                  <= pc[s].clip_duration + 15

\* C21: within one run every stage works with the same configuration,
\* fixed at run start: the max_clips_per_video, min_clip_duration and
\* max_clip_duration the selection stage uses equal the ones the analysis
\* stage used, also when process_video is given config overrides.
C21_SameConfigInEveryStage ==
    \A i \in DOMAIN invoked : \A j \in DOMAIN invoked :
        (invoked[i].node = "analyze_content" /\ invoked[j].node = "select_clips") =>
            /\ invoked[j].config.max_clips_per_video
                 = invoked[i].config.max_clips_per_video
            /\ invoked[j].config.min_clip_duration
                 = invoked[i].config.min_clip_duration
            /\ invoked[j].config.max_clip_duration
                 = invoked[i].config.max_clip_duration

\* C22: on every change of the pipeline's status a notification carrying
\* that status, a message and the clips produced so far is pushed to the
\* progress sink.
C22_NotificationPerStatusChange ==
    [][ state'.status # state.status =>
          /\ Len(returned'.delivery) = Len(returned.delivery) + 1
          /\ returned'.processing_status.status = state'.status ]_vars

\* the update a send_update call at position p stores
UpdateSentAt(p) ==
    IF p = "send_processing"
    THEN ProgressUpdate("processing", "Processing your video...", <<>>)
    ELSE IF p = "send_completed"
    THEN ProgressUpdate("completed", "Successfully generated clips",
                        clips_info(returned.result))
    ELSE ProgressUpdate("failed", "Processing failed", <<>>)

PositionAfter(p) == IF p = "send_processing" THEN "set_environ" ELSE "session_done"

\* C23: a failure to deliver a notification (the WebSocket send raising, or
\* no socket connected) never changes the run: whichever way the delivery
\* ends, the stored processing_status is the update, the pipeline state and
\* result are untouched and processing goes on at the same place.
C23_DeliveryFailureChangesNothing ==
    [][ Len(returned'.delivery) > Len(returned.delivery) =>
          /\ returned'.processing_status = UpdateSentAt(pc)
          /\ returned'.result = returned.result
          /\ returned'.request = returned.request
          /\ state' = state
          /\ pc' = PositionAfter(pc) ]_vars

\* a session whose two sends both failed and that still ended completed,
\* with the clips of its result
C23_Witness ==
    /\ pc = "session_done"
    /\ returned.delivery = <<"raised", "no_socket">>
    /\ returned.sent = <<>>
    /\ returned.processing_status.status = "completed"
    /\ Len(returned.processing_status.clips) = 2
    /\ returned.result.status = "metadata_generated"

C25_EmptyForNonPositiveCount ==
    (pc = "select_done" /\ RanWith("select_clips", "ok")) =>
        LET ranked == sort_by_score(validated_clips(state.identified_clips, from_env(env)))
        IN  (ranked = <<>> \/ env.MAX_CLIPS_PER_VIDEO <= 0) =>
                state.selected_clips = <<>>

\* the statuses of a run that ended without clips and without a fatal error
NoResultStatuses ==
    { "no_clips_identified", "no_clips_selected", "no_clips_passed_validation",
      "no_clips_to_generate", "clip_generation_failed" }

Reported == pc = "reported"

Report == invoked[Len(invoked)]

\* C26: a run that ends with no clips and no fatal error (a no-result
\* terminal state such as no_clips_passed_validation) is reported to the
\* user as a no-clips outcome, never as a processing failure.
C26_NoResultIsNotAFailure ==
    (Reported /\ returned.status \in NoResultStatuses /\ returned.errors = <<>>) =>
        Report.outcome = "no_clips"

\* C27: for every run that completes all stages successfully the CLI
\* reports success and writes the summary document analysis_summary.json.
C27_CompleteRunIsSavedAsSuccess ==
    (Reported /\ returned.status = "metadata_generated") =>
        /\ Report.outcome = "success"
        /\ Report.saved

TerminalStatuses ==
    { "metadata_generated", "failed" } \cup NoResultStatuses

\* C28: when the workflow ends, the status of the returned result is a
\* terminal one (metadata_generated, failed, or a no-result status), never
\* an intermediate one such as starting, transcript_fetched,
\* clips_identified, clips_selected, video_downloaded or clips_generated.
C28_EndsInTerminalStatus ==
    pc = "returned" => returned.status \in TerminalStatuses

WithinVideo(clip, video_duration) ==
    /\ 0 <= clip.start_time
    /\ clip.start_time < clip.end_time
    /\ clip.end_time <= video_duration

\* C29: every clip that reaches selected_clips has a time range inside the
\* source video: 0 <= start_time < end_time <= video_duration.
C29_SelectedClipsInsideVideo ==
    \A i \in DOMAIN state.selected_clips :
        WithinVideo(state.selected_clips[i], state.video_duration)

SessionEnded ==
    /\ pc = "session_done"
    /\ returned.processing_status.status \in {"completed", "failed"}

\* C30: provided each collaborator call returns or raises, a run invokes
\* at most six stages, process_video eventually returns once it was
\* called, and the backend session eventually reaches 'completed' or
\* 'failed' and stays there.
C30_SessionTerminates ==
    /\ [](Len(invoked) <= 6)
    /\ (pc = "fetch_transcript") ~> (pc = "send_completed")
    /\ <>[]SessionEnded

C30_Witness ==
    /\ SessionEnded
    /\ Len(invoked) = 6
    /\ returned.result.status = "metadata_generated"

\* the step of generate_clips_node that went through its clip loop
GeneratedStep ==
    /\ pc = "generate_clips"
    /\ invoked' = Append(invoked, [node |-> "generate_clips", outcome |-> "ok"])
    /\ state.selected_clips # <<>>

Failed(result) == ~result.success

\* C31: if every selected clip fails to generate, the run ends with status
\* clip_generation_failed (not failed), the metadata stage is not invoked
\* and errors is unchanged; each failure appears in warnings and in that
\* clip's result (success = false); if at least one clip succeeds the
\* status is clips_generated and the metadata stage runs next.
C31_AllClipsFailed ==
    [][ GeneratedStep =>
          LET failures == CountIn(state'.processed_clips, Failed)
          IN  /\ state'.errors = state.errors
              /\ Len(state'.warnings) = Len(state.warnings) + failures
              /\ \A i \in DOMAIN state'.processed_clips :
                   Failed(state'.processed_clips[i]) =>
                       state'.processed_clips[i].errors # <<>>
              /\ IF failures = Len(state.selected_clips)
                 THEN /\ state'.status = "clip_generation_failed"
                      /\ pc' = "END"
                 ELSE /\ state'.status = "clips_generated"
                      /\ pc' = "generate_metadata" ]_vars

C31_Witness ==
    /\ pc = "END"
    /\ state.status = "clip_generation_failed"
    /\ Len(state.processed_clips) = 2
    /\ ~Ran("generate_metadata")

\* C32: for all positive source and target sizes whose aspect ratios differ
\* by at least 0.01, convert_to_portrait takes a padding branch (the source
\* composited on a background); neither crop branch is taken.
C32_NeverCrops ==
    (Converted /\ AllPositive /\ ~AspectsWithinTolerance) =>
        /\ returned.operation = "composite"
        /\ returned.crop = no_crop

\* a 5:7 source on a 9:16 canvas
C32_Witness ==
    /\ Converted
    /\ state.clip_size = <<5, 7>>
    /\ state.target_resolution = <<1080, 1920>>
    /\ returned.operation = "composite"

\* C33: in every padding result of convert_to_portrait the resized source
\* lies entirely inside the target canvas: on each axis the offset is >= 0
\* and offset + resized dimension <= target dimension.
C33_PaddedSourceInsideCanvas ==
    (Converted /\ AllPositive /\ returned.operation = "composite") =>
        \A axis \in {1, 2} :
            /\ returned.offset[axis] >= 0
            /\ returned.offset[axis] + returned.inner[axis]
                 <= state.target_resolution[axis]

\* C34: for every request the backend accepts, the target clip duration
\* the analysis stage passes to the scorer lies inside the
\* [min_clip_duration, max_clip_duration] window the selection stage
\* enforces for that run.
C34_TargetInsideWindow ==
    pc = "configured" =>
        /\ invoked[2].config.min_clip_duration <= invoked[1].target_duration
        /\ invoked[1].target_duration <= invoked[2].config.max_clip_duration

SessionCompleted ==
    /\ pc = "session_done"
    /\ returned.processing_status.status = "completed"

\* C35: the backend's final update for a session has status completed only
\* if the pipeline produced at least one successful clip; when the pipeline
\* returns status failed or a no-result state, the final status is not
\* completed.
C35_CompletedOnlyWithClips ==
    SessionCompleted =>
        /\ \E i \in DOMAIN returned.result.processed_clips :
              returned.result.processed_clips[i].success
        /\ returned.result.status \notin {"failed"} \cup NoResultStatuses

\* C36: every clip listed in a session's completed update is a processed
\* clip that was generated successfully; clips whose generation failed are
\* not listed.
C36_OnlySuccessfulClipsListed ==
    SessionCompleted =>
        \A k \in DOMAIN returned.processing_status.clips :
            returned.result.processed_clips[returned.processing_status.clips[k].id].success

\* C37: while a client holds an open WebSocket for a session, every status
\* update subsequently issued for that session is sent to that socket,
\* under every interleaving of connects, disconnects and updates.
C37_OpenSocketGetsEveryUpdate ==
    [][ Len(invoked') = Len(invoked) + 1 =>
          \A w \in state.open :
              state'.received[w] = Append(state.received[w], invoked'[Len(invoked')]) ]_vars

\* C38: process_video never raises to its caller: for every outcome of the
\* workflow it returns a state whose completed_at is set, and whenever an
\* exception occurred in the graph or while printing the summary, the
\* returned state has status failed and a non-empty errors list.
C38_AlwaysReturnsAState ==
    /\ pc = "END" => ENABLED Finish
    /\ pc = "returned" =>
         /\ returned.completed_at
         /\ print_summary_raises(state) =>
              /\ returned.status = "failed"
              /\ returned.errors # <<>>

C38_Witness ==
    /\ pc = "returned"
    /\ print_summary_raises(state)
    /\ returned.completed_at
    /\ returned.errors[Len(returned.errors)] = "Workflow execution failed"
====
